---- MODULE Spec2Model ----
(***************************************************************************)
(* A model of the palletiser control loop of src/src/main.cpp: the         *)
(* Settings gate, the simulated axes and gripper, the three coroutines     *)
(* Arm::run, Mag::run and Inlet::run with the coroutines they nest, and    *)
(* main's tick loop which steps them in a fixed order.                     *)
(*                                                                         *)
(* A coroutine is a frame: the function it runs, the suspension point it   *)
(* is parked at (pc) and its arguments.  A family's frames form a stack,   *)
(* outermost first, as EXEC / EXEC_WHILE nest them.  Resuming a frame runs *)
(* its code up to the next co_yield or to its end.                         *)
(***************************************************************************)
EXTENDS Integers, Sequences, FiniteSets, TLC

-----------------------------------------------------------------------------
(* Bounds of the model *)

\* width, in bits, the model gives to std::size_t (the code's is 64)
SizeBits == 4

\* operator calls (set_active, reset_active, set_error, reset_error) per run
MaxOps == 3

\* the operators stop acting once that many boxes were counted in total
MaxBoxes == 2

\* the clock is followed up to this time, in milliseconds
MaxTime == 45

\* longest stretch of work between two waits, and longest oversleep of
\* sleep_until, in milliseconds
MaxWork == 24
MaxOversleep == 1

\* bytes of a coroutine frame apart from its parameters and locals (the
\* compiler's choice)
FrameBytes == 36

\* allocations made in all from an arena that is tried on its own
MaxAllocs == 4

-----------------------------------------------------------------------------
(* Program constants *)

ErrorCOUNT == 3
Errors == 0 .. (ErrorCOUNT - 1)

SizeMod == 2 ^ SizeBits

motor_speed == 17
piston_ticks == 3
inlet_move_ticks == 10
mag_reload_ticks == 5

box_height == 30
floor_pos == 300
boxes_per_palette == 48
travel_z == 100
home_z == 0
tick_period == 10
coroutines_stack_size == 512
elem_size == 8

Position(x, y, z) == [x |-> x, y |-> y, z |-> z]

update_x_y_positions(x1, x2, y1, y2) ==
    << Position(x1, y1, -1000), Position(x2, y1, -1000),
       Position(x1, y2, -1000), Position(x2, y2, -1000) >>

x_y_positions == update_x_y_positions(250, 150, 300, 200)
wait_pos == Position(100, 100, 100)
box_pickup_pos == Position(100, 100, 200)
home_pos == Position(0, 0, 0)

-----------------------------------------------------------------------------
(* Settings: the activation flag, the error counter, the error flags *)

SettingsInit ==
    [active |-> FALSE, nr_errors |-> 0, curr_errors |-> [k \in Errors |-> FALSE]]

BoolToInt(b) == IF b THEN 1 ELSE 0

is_active(s) == s.active
has_error(s) == s.nr_errors # 0
curr_error_count(s) == s.nr_errors
error_is_set(s, k) == s.curr_errors[k]

set_error(s, k) ==
    [active |-> FALSE,
     nr_errors |-> (s.nr_errors + 1 - BoolToInt(s.curr_errors[k])) % SizeMod,
     curr_errors |-> [s.curr_errors EXCEPT ![k] = TRUE]]

reset_error(s, k) ==
    [s EXCEPT !.nr_errors = (s.nr_errors - BoolToInt(s.curr_errors[k])) % SizeMod]

\* a set_active that forgets the error gate
set_active_ungated(s) == [s EXCEPT !.active = TRUE]

set_active(s) ==
    IF ~has_error(s) THEN [s EXCEPT !.active = TRUE] ELSE s

reset_active(s) == [s EXCEPT !.active = FALSE]

-----------------------------------------------------------------------------
(* SimulatedMotor and SimulatedPiston *)

MotorInit == [target_pos |-> 0, curr_pos |-> 0]

sign(x) == IF x < 0 THEN -1 ELSE IF x > 0 THEN 1 ELSE 0
Abs(x) == IF x < 0 THEN -x ELSE x
Min(a, b) == IF a < b THEN a ELSE b

motor_is_moving(m) == m.curr_pos # m.target_pos
go_to_pos(m, pos) == [m EXCEPT !.target_pos = pos]
motor_stop(m) == [m EXCEPT !.target_pos = m.curr_pos]

motor_simulate_tick(m) ==
    LET diff == m.target_pos - m.curr_pos
        step == Min(Abs(diff), motor_speed)
    IN  [m EXCEPT !.curr_pos = m.curr_pos + sign(diff) * step]

PistonInit == [curr_extended |-> TRUE, ticks_until_change |-> 0]

piston_is_moving(p) == p.ticks_until_change # 0
is_extended(p) == ~piston_is_moving(p) /\ p.curr_extended
is_retracted(p) == ~piston_is_moving(p) /\ ~p.curr_extended

extend(p) ==
    IF ~p.curr_extended THEN [p EXCEPT !.ticks_until_change = piston_ticks] ELSE p

\* a piston that retracts at once
retract_at_once(p) == [p EXCEPT !.curr_extended = FALSE]

retract(p) ==
    IF p.curr_extended THEN [p EXCEPT !.ticks_until_change = piston_ticks] ELSE p

piston_simulate_tick(p) ==
    IF p.ticks_until_change > 0
    THEN [ticks_until_change |-> p.ticks_until_change - 1,
          curr_extended |-> IF p.ticks_until_change - 1 = 0
                            THEN ~p.curr_extended ELSE p.curr_extended]
    ELSE p

-----------------------------------------------------------------------------
(* Coroutine frames.  w is the part of the program state a step of the Arm *)
(* family reads and writes: settings, arm_state, x_axis, y_axis, z_axis,   *)
(* gripper, inlet_state, mag_state, nr_boxes, frames (the Arm family's     *)
(* frames, outermost first), fault, and ev, the set of things this step    *)
(* did (a record of the step, read by the properties only).  A frame lies   *)
(* in its family's arena at the index addr; start_unused is the arena's     *)
(* cursor.                                                                  *)

\* CoroutineStack::allocate(n) with the cursor at start_unused: whether the
\* assert holds, the address returned (an index of the arena) and the cursor
allocate(start_unused, n) ==
    LET nr_needed == (n + elem_size - 1) \div elem_size
        new_start_unused == start_unused + nr_needed
    IN  [ok |-> new_start_unused <= coroutines_stack_size,
         address |-> start_unused,
         start_unused |-> new_start_unused]

\* CoroutineStack::deallocate(address): whether both asserts hold, and the cursor
deallocate(start_unused, address) ==
    [ok |-> address < start_unused /\ address < coroutines_stack_size,
     start_unused |-> address]

\* the bytes asked of operator new for a frame of fn: the parameters and
\* locals kept across suspensions are one coro_f or one counter, and for
\* go_to its initial_z and pos
frame_bytes(fn) == FrameBytes + (IF fn = "go_to" THEN 4 ELSE 1) * elem_size

Frame(fn, args) == [fn |-> fn, pc |-> "initial", args |-> args, addr |-> 0]

SetPc(w, d, pc) == [w EXCEPT !.frames[d].pc = pc]

\* a failed assert aborts the program
AssertFails(w, name) == [w EXCEPT !.fault = name]

\* v with the frame f allocated by a, a result of allocate
Allocated(v, f, a) ==
    [v EXCEPT !.frames = Append(@, [f EXCEPT !.addr = a.address]),
              !.start_unused = a.start_unused,
              !.fault = IF a.ok THEN @ ELSE "allocate"]

\* SideEffectCoroutine coro_f = init;  (the frame is allocated, not yet run;
\* a failed assert of allocate aborts the program).  The quantifiers give w
\* and the result of allocate a value once, instead of once per use.
Create(w, f) ==
    CHOOSE made \in {Allocated(v, f, a) :
                        v \in {w}, a \in {allocate(w.start_unused, frame_bytes(f.fn))}} : TRUE

\* v without its frame at depth d, freed with r, a result of deallocate
Deallocated(v, d, r) ==
    [v EXCEPT !.frames = SubSeq(@, 1, d - 1) \o SubSeq(@, d + 1, Len(@)),
              !.start_unused = r.start_unused,
              !.fault = IF r.ok THEN @ ELSE "deallocate"]

\* handle.destroy() of the frame at depth d, which nothing nests any more
Free(w, d) ==
    CHOOSE freed \in {Deallocated(v, d, deallocate(v.start_unused, v.frames[d].addr)) :
                         v \in {w}} : TRUE

\* a destructor that frees a frame before the frame nested in it
Destroy_outer_first(w, d) ==
    IF Len(w.frames) > d + 1 THEN Free(Free(w, d + 1), d + 1) ELSE Free(w, d + 1)

\* ~SideEffectCoroutine of the frame at depth d + 1: the coro_f it holds, if
\* it is parked in an EXEC, is destroyed first, then its own frame is freed
Destroy(w, d) ==
    IF Len(w.frames) > d + 1 THEN Free(Free(w, d + 2), d + 1) ELSE Free(w, d + 1)

\* explicit operator bool() of the coroutine at depth d
Alive(w, d) == w.frames[d].pc # "final"

\* a loop that never reaches a co_yield: the step does not return
Hangs(w) == [w EXCEPT !.fault = "hang"]

Note(w, e) == [w EXCEPT !.ev = @ \cup {e}]

\* the step reads, or writes, the shared variable of that name
Reads(w, name) == [w EXCEPT !.rd = @ \cup {name}]
Writes(w, name) == [w EXCEPT !.wr = @ \cup {name}]

\* coro_f(): the frame at depth d is resumed from where it is parked
Resume(w, d) ==
    CHOOSE r \in {[v EXCEPT !.resumed = Append(@, [d |-> d, pc |-> v.frames[d].pc])] :
                     v \in {w}} : TRUE

\* an EXEC_WHILE that does not look at its condition
exec_while_continues_whatever(cond, alive) == alive

\* while ((cond) && coro_f) of EXEC_WHILE
exec_while_continues(cond, alive) == cond /\ alive

-----------------------------------------------------------------------------
(* Arm::go_to(initial_z, pos), at depth d *)

go_to_wait_z2(w, d) ==
    IF motor_is_moving(w.z_axis) THEN SetPc(w, d, "wait_z2") ELSE SetPc(w, d, "final")

go_to_wait_xy(w, d) ==
    IF motor_is_moving(w.x_axis) \/ motor_is_moving(w.y_axis)
    THEN SetPc(w, d, "wait_xy")
    ELSE go_to_wait_z2([w EXCEPT !.z_axis = go_to_pos(@, w.frames[d].args[2].z)], d)

go_to_wait_z1(w, d) ==
    IF motor_is_moving(w.z_axis)
    THEN SetPc(w, d, "wait_z1")
    ELSE go_to_wait_xy([w EXCEPT !.x_axis = go_to_pos(@, w.frames[d].args[2].x),
                                 !.y_axis = go_to_pos(@, w.frames[d].args[2].y)], d)

go_to(w, d) ==
    CASE w.frames[d].pc = "initial" ->
            go_to_wait_z1([w EXCEPT !.z_axis = go_to_pos(@, w.frames[d].args[1])], d)
      [] w.frames[d].pc = "wait_z1" -> go_to_wait_z1(w, d)
      [] w.frames[d].pc = "wait_xy" -> go_to_wait_xy(w, d)
      [] w.frames[d].pc = "wait_z2" -> go_to_wait_z2(w, d)

-----------------------------------------------------------------------------
(* next_stack_box_pos *)

\* a stack that never leaves the floor
next_stack_box_pos_flat(n) ==
    [x_y_positions[(n % 4) + 1] EXCEPT !.z = floor_pos]

next_stack_box_pos(n) ==
    [x_y_positions[(n % 4) + 1] EXCEPT !.z = floor_pos + (n \div 4) * box_height]

-----------------------------------------------------------------------------
(* Arm::box_stacking_cycle, at depth d; its go_to runs at depth d + 1 *)

cycle_after_wait2(w, d) ==
    SetPc([w EXCEPT !.arm_state = "Waiting"], d, "final")

cycle_exec_wait2(w, d) ==
    IF exec_while_continues(TRUE, Alive(w, d + 1))
    THEN SetPc(go_to(Resume(w, d + 1), d + 1), d, "exec_wait2")
    ELSE cycle_after_wait2(Destroy(w, d), d)

cycle_wait_extend(w, d) ==
    IF ~is_extended(w.gripper)
    THEN SetPc(w, d, "wait_extend")
    ELSE cycle_exec_wait2(
            Create(Note(Writes(Reads([w EXCEPT !.nr_boxes = @ + 1,
                                                !.arm_state = "ToWaitPos"],
                                     "nr_boxes"), "nr_boxes"), "inc"),
                   Frame("go_to", <<travel_z, wait_pos>>)), d)

cycle_release(w, d) ==
    cycle_wait_extend([w EXCEPT !.arm_state = "ReleaseBox", !.gripper = extend(@)], d)

cycle_exec_stack(w, d) ==
    IF exec_while_continues(TRUE, Alive(w, d + 1))
    THEN SetPc(go_to(Resume(w, d + 1), d + 1), d, "exec_stack")
    ELSE cycle_release(Destroy(w, d), d)

\* a pickup that forgets to clear Inlet's state
clear_inlet_forgotten(w) == w

\* Inlet::state = Inlet::State::NoBox;
clear_inlet(w) == Writes([w EXCEPT !.inlet_state = "NoBox"], "inlet_state")

cycle_wait_retract(w, d) ==
    IF ~is_retracted(w.gripper)
    THEN SetPc(w, d, "wait_retract")
    ELSE cycle_exec_stack(
            Create(Note(Reads(clear_inlet([w EXCEPT !.arm_state = "TransportBox"]),
                              "nr_boxes"), "pick"),
                   Frame("go_to", <<travel_z, next_stack_box_pos(w.nr_boxes)>>)), d)

cycle_grip(w, d) ==
    cycle_wait_retract([w EXCEPT !.gripper = retract(@)], d)

cycle_exec_pick(w, d) ==
    IF exec_while_continues(TRUE, Alive(w, d + 1))
    THEN SetPc(go_to(Resume(w, d + 1), d + 1), d, "exec_pick")
    ELSE cycle_grip(Destroy(w, d), d)

cycle_take(w, d) ==
    IF ~is_extended(w.gripper)
    THEN AssertFails([w EXCEPT !.arm_state = "TakeBox"], "take_box_gripper")
    ELSE cycle_exec_pick(
            Create(Note([w EXCEPT !.arm_state = "TakeBox"], "take"),
                   Frame("go_to", <<travel_z, box_pickup_pos>>)), d)

\* the body of the do-while: leave when deactivated, else yield
cycle_wait_body(w, d) ==
    IF ~is_active(w.settings)
    THEN SetPc(Note(w, "abort"), d, "final")
    ELSE SetPc(w, d, "waiting")

\* the condition of the do-while, evaluated when resumed from its yield
cycle_wait_cond(w, d) ==
    IF w.inlet_state # "BoxReady"
    THEN cycle_wait_body(Reads(w, "inlet_state"), d)
    ELSE IF w.mag_state # "Ready"
    THEN cycle_wait_body(Reads(Reads(w, "inlet_state"), "mag_state"), d)
    ELSE cycle_take(Reads(Reads(w, "inlet_state"), "mag_state"), d)

cycle_after_wait1(w, d) ==
    cycle_wait_body([w EXCEPT !.arm_state = "Waiting"], d)

cycle_exec_wait1(w, d) ==
    IF exec_while_continues(TRUE, Alive(w, d + 1))
    THEN SetPc(go_to(Resume(w, d + 1), d + 1), d, "exec_wait1")
    ELSE cycle_after_wait1(Destroy(w, d), d)

cycle_entry(w, d) ==
    IF ~(w.arm_state # "Undefined" /\ w.arm_state # "Homeing" /\ is_extended(w.gripper))
    THEN AssertFails(w, "cycle_entry")
    ELSE cycle_exec_wait1(
            Create(Note([w EXCEPT !.arm_state = "ToWaitPos"], "cycle"),
                   Frame("go_to", <<travel_z, wait_pos>>)), d)

box_stacking_cycle(w, d) ==
    CASE w.frames[d].pc = "initial" -> cycle_entry(w, d)
      [] w.frames[d].pc = "exec_wait1" -> cycle_exec_wait1(w, d)
      [] w.frames[d].pc = "waiting" -> cycle_wait_cond(w, d)
      [] w.frames[d].pc = "exec_pick" -> cycle_exec_pick(w, d)
      [] w.frames[d].pc = "wait_retract" -> cycle_wait_retract(w, d)
      [] w.frames[d].pc = "exec_stack" -> cycle_exec_stack(w, d)
      [] w.frames[d].pc = "wait_extend" -> cycle_wait_extend(w, d)
      [] w.frames[d].pc = "exec_wait2" -> cycle_exec_wait2(w, d)

-----------------------------------------------------------------------------
(* Arm::homeing, at depth d *)

homeing_done(w, d) ==
    SetPc(Note([w EXCEPT !.arm_state = "InHomePos"], "homed"), d, "final")

homeing_exec(w, d) ==
    IF exec_while_continues(TRUE, Alive(w, d + 1))
    THEN SetPc(go_to(Resume(w, d + 1), d + 1), d, "exec_go_to")
    ELSE homeing_done(Destroy(w, d), d)

homeing(w, d) ==
    CASE w.frames[d].pc = "initial" ->
            IF w.arm_state # "Homeing"
            THEN AssertFails(w, "homeing_entry")
            ELSE homeing_exec(Create(w, Frame("go_to", <<home_z, home_pos>>)), d)
      [] w.frames[d].pc = "exec_go_to" -> homeing_exec(w, d)

-----------------------------------------------------------------------------
(* Arm::run, the frame at depth 1 *)

RECURSIVE run_top(_), run_wait_error(_), run_exec_homeing(_), run_transport(_)
RECURSIVE run_idle(_), run_active(_), run_exec_cycle(_), run_error(_)

\* while (true) { assert(state == State::Undefined); ...
run_top(w) ==
    IF w.arm_state # "Undefined" THEN AssertFails(w, "run_top") ELSE run_wait_error(w)

\* WAIT_WHILE(settings.has_error()); state = Homeing; EXEC_WHILE(.., homeing())
run_wait_error(w) ==
    IF has_error(w.settings)
    THEN SetPc(w, 1, "wait_error")
    ELSE run_exec_homeing(Create([w EXCEPT !.arm_state = "Homeing"], Frame("homeing", <<>>)))

run_exec_homeing(w) ==
    IF exec_while_continues(~has_error(w.settings), Alive(w, 2))
    THEN SetPc(homeing(Resume(w, 2), 2), 1, "exec_homeing")
    ELSE run_transport(Destroy(w, 1))

\* while (!settings.has_error()) { ... }  and, after it, the error branch
run_transport(w) ==
    IF ~has_error(w.settings) THEN run_idle(w) ELSE run_error(w)

\* while (!settings.is_active()) { YIELD; }
run_idle(w) ==
    IF ~is_active(w.settings) THEN SetPc(w, 1, "idle") ELSE run_active(w)

\* while (settings.is_active()) { EXEC_WHILE(!settings.has_error(), box_stacking_cycle()); }
\* With the settings active and an error set the EXEC_WHILE neither steps the
\* cycle nor yields, and the while loop repeats it for ever.
run_active(w) ==
    IF is_active(w.settings)
    THEN IF has_error(w.settings)
         THEN Hangs(w)
         ELSE run_exec_cycle(Create(w, Frame("box_stacking_cycle", <<>>)))
    ELSE run_transport(w)

run_exec_cycle(w) ==
    IF exec_while_continues(~has_error(w.settings), Alive(w, 2))
    THEN SetPc(box_stacking_cycle(Resume(w, 2), 2), 1, "exec_cycle")
    ELSE run_active(Destroy(w, 1))

\* x_axis.stop(); y_axis.stop(); z_axis.stop(); state = State::Undefined;
run_error(w) ==
    run_top(Note([w EXCEPT !.x_axis = motor_stop(@), !.y_axis = motor_stop(@),
                           !.z_axis = motor_stop(@), !.arm_state = "Undefined"], "stop"))

run(w) ==
    CASE w.frames[1].pc = "initial" -> run_top(w)
      [] w.frames[1].pc = "wait_error" -> run_wait_error(w)
      [] w.frames[1].pc = "exec_homeing" -> run_exec_homeing(w)
      [] w.frames[1].pc = "idle" -> run_idle(w)
      [] w.frames[1].pc = "exec_cycle" -> run_exec_cycle(w)

-----------------------------------------------------------------------------
(* Inlet::run and Mag::run: one frame each, with the loop counter i *)

RECURSIVE inlet_top(_), inlet_for(_), inlet_wait_ready(_)

\* an Inlet that also waits for Magazine to be Ready
inlet_top_after_magazine(w) ==
    IF ~is_active(w.settings) \/ w.mag_state # "Ready"
    THEN Reads([w EXCEPT !.inl_frame.pc = "wait_active"], "mag_state")
    ELSE inlet_for(Writes(Reads([w EXCEPT !.inlet_state = "MoveBox", !.inl_frame.i = 0],
                                "mag_state"), "inlet_state"))

\* WAIT_WHILE(!settings.is_active()); state = State::MoveBox; for (i = 0; ...
inlet_top(w) ==
    IF ~is_active(w.settings)
    THEN [w EXCEPT !.inl_frame.pc = "wait_active"]
    ELSE inlet_for(Writes([w EXCEPT !.inlet_state = "MoveBox", !.inl_frame.i = 0],
                          "inlet_state"))

\* an Inlet whose move is put off while the settings are inactive
inlet_for_interruptible(w) ==
    IF ~is_active(w.settings)
    THEN [w EXCEPT !.inl_frame.pc = "wait_active"]
    ELSE IF w.inl_frame.i < inlet_move_ticks
    THEN [w EXCEPT !.inl_frame.pc = "move"]
    ELSE inlet_wait_ready(Writes([w EXCEPT !.inlet_state = "BoxReady"], "inlet_state"))

\* for (..; i < 10; ..) { YIELD; }  state = State::BoxReady;
inlet_for(w) ==
    IF w.inl_frame.i < inlet_move_ticks
    THEN [w EXCEPT !.inl_frame.pc = "move"]
    ELSE inlet_wait_ready(Writes([w EXCEPT !.inlet_state = "BoxReady"], "inlet_state"))

\* WAIT_WHILE(state == State::BoxReady);  then the while (true) loop repeats
inlet_wait_ready(w) ==
    IF w.inlet_state = "BoxReady"
    THEN Reads([w EXCEPT !.inl_frame.pc = "wait_ready"], "inlet_state")
    ELSE inlet_top(Reads(w, "inlet_state"))

inlet_run(w) ==
    CASE w.inl_frame.pc = "initial" ->
            IF w.inlet_state # "Undefined"
            THEN AssertFails(w, "inlet_entry")
            ELSE inlet_top(Reads(w, "inlet_state"))
      [] w.inl_frame.pc = "wait_active" -> inlet_top(w)
      [] w.inl_frame.pc = "move" -> inlet_for([w EXCEPT !.inl_frame.i = @ + 1])
      [] w.inl_frame.pc = "wait_ready" -> inlet_wait_ready(w)

RECURSIVE mag_top(_), mag_wait(_), mag_for(_)

\* a Magazine that never publishes Ready
mag_top_unpublished(w) == mag_wait(w)

\* state = State::Ready; WAIT_WHILE(nr_boxes < positions.boxes_per_palette);
mag_top(w) == mag_wait(Writes([w EXCEPT !.mag_state = "Ready"], "mag_state"))

\* a Magazine that reloads without resetting the count
mag_wait_keeps_count(w) ==
    IF w.nr_boxes < boxes_per_palette
    THEN Reads([w EXCEPT !.mag_frame.pc = "wait_full"], "nr_boxes")
    ELSE mag_for(Writes(Reads([w EXCEPT !.mag_state = "Reloading", !.mag_frame.i = 0],
                              "nr_boxes"), "mag_state"))

\* state = State::Reloading; nr_boxes = 0; for (i = 0; ...
mag_wait(w) ==
    IF w.nr_boxes < boxes_per_palette
    THEN Reads([w EXCEPT !.mag_frame.pc = "wait_full"], "nr_boxes")
    ELSE mag_for(Writes(Writes(Reads([w EXCEPT !.mag_state = "Reloading",
                                               !.nr_boxes = 0, !.mag_frame.i = 0],
                                    "nr_boxes"), "mag_state"), "nr_boxes"))

\* a Magazine whose reload is one tick short
mag_for_hasty(w) ==
    IF w.mag_frame.i < mag_reload_ticks - 1
    THEN [w EXCEPT !.mag_frame.pc = "reload"]
    ELSE mag_top(w)

\* for (..; i < 5; ..) { YIELD; }  then the while (true) loop repeats
mag_for(w) ==
    IF w.mag_frame.i < mag_reload_ticks
    THEN [w EXCEPT !.mag_frame.pc = "reload"]
    ELSE mag_top(w)

mag_run(w) ==
    CASE w.mag_frame.pc = "initial" ->
            IF w.mag_state # "Undefined"
            THEN AssertFails(w, "mag_entry")
            ELSE mag_top(Reads(w, "mag_state"))
      [] w.mag_frame.pc = "wait_full" -> mag_wait(w)
      [] w.mag_frame.pc = "reload" -> mag_for([w EXCEPT !.mag_frame.i = @ + 1])

-----------------------------------------------------------------------------
(* Tick: the baseline start, the period, and the clock as the timer last *)
(* read it or slept up to, in integer milliseconds                       *)

TickInit(period) == [start |-> 0, period |-> period, now |-> 0, sleep_time |-> 0]

\* a timer that always moves its baseline on by one period
wait_till_end_of_tick_indebted(t, oversleep) ==
    LET curr_duration == t.now - t.start
    IN  [t EXCEPT !.start = @ + t.period,
                  !.now = IF curr_duration < t.period
                          THEN t.start + t.period + oversleep ELSE @,
                  !.sleep_time = t.period - curr_duration]

\* sleep_until returns at the time given or, by oversleep, after it
wait_till_end_of_tick(t, oversleep) ==
    LET curr_duration == t.now - t.start
    IN  IF curr_duration < t.period
        THEN [t EXCEPT !.start = @ + t.period,
                       !.now = t.start + t.period + oversleep,
                       !.sleep_time = t.period - curr_duration]
        ELSE [t EXCEPT !.start = t.now,
                       !.sleep_time = t.period - curr_duration]

-----------------------------------------------------------------------------
(* The program state *)

VARIABLES
    settings,       \* the Settings object
    nr_boxes,       \* boxes on the pallet
    inlet_state,    \* Inlet::state
    mag_state,      \* Mag::state
    arm_state,      \* Arm::state
    x_axis, y_axis, z_axis, gripper,
    arm_frames,     \* the frames of Arm::run and of what it nests, outermost first
    inl_frame,      \* the frame of Inlet::run
    mag_frame,      \* the frame of Mag::run
    main_pc,        \* where main is: "main", then "sim", "arm", "mag", "inl" in turn
    fault,          \* "none", or the assert that aborted the program, or "hang"
    ops,            \* operator calls made so far
    last_op,        \* the operator's last call since the last tick, if any
    ev,             \* what the last step of Arm did
    uncounted,      \* gripper extensions completed minus increments of nr_boxes
    tally,          \* counts of Arm's pickups and increments (see TallyInit)
    timer,          \* main's Tick object and the clock
    start_unused,   \* CoroutineStack<O>::start_unused of the owners Arm, Mag, Inlet
    resumed,        \* the nested frames the last step of Arm resumed, in order
    reads,          \* the shared variables the last step of a task read
    dirty,          \* the shared variables written in this tick, each with its writer
    arena           \* a CoroutineStack tried on its own: cursor, live blocks,
                    \* failed assert, allocations made

vars == << settings, nr_boxes, inlet_state, mag_state, arm_state, x_axis, y_axis,
           z_axis, gripper, arm_frames, inl_frame, mag_frame, main_pc, fault, ops,
           last_op, ev, uncounted, tally, timer, start_unused, resumed, reads,
           dirty, arena >>

\* what the control loop's steps and the operator leave alone
apart == << timer, arena >>

plant == << nr_boxes, inlet_state, mag_state, arm_state, x_axis, y_axis,
            z_axis, gripper, arm_frames, inl_frame, mag_frame, main_pc, fault,
            ev, uncounted, tally, start_unused, resumed, reads, dirty >>

World ==
    [settings |-> settings, nr_boxes |-> nr_boxes, inlet_state |-> inlet_state,
     mag_state |-> mag_state, arm_state |-> arm_state, x_axis |-> x_axis,
     y_axis |-> y_axis, z_axis |-> z_axis, gripper |-> gripper,
     frames |-> arm_frames, inl_frame |-> inl_frame, mag_frame |-> mag_frame,
     fault |-> fault, ev |-> {}, start_unused |-> start_unused["Arm"],
     rd |-> {}, wr |-> {}, resumed |-> << >>]

\* the step's result becomes the program state
Becomes(w) ==
    /\ nr_boxes' = w.nr_boxes
    /\ inlet_state' = w.inlet_state
    /\ mag_state' = w.mag_state
    /\ arm_state' = w.arm_state
    /\ x_axis' = w.x_axis
    /\ y_axis' = w.y_axis
    /\ z_axis' = w.z_axis
    /\ gripper' = w.gripper
    /\ arm_frames' = w.frames
    /\ inl_frame' = w.inl_frame
    /\ mag_frame' = w.mag_frame
    /\ fault' = w.fault
    /\ start_unused' = [start_unused EXCEPT !["Arm"] = w.start_unused]

\* the step of task, whose result is w, is entered in reads and dirty
Accesses(w, task) ==
    /\ reads' = w.rd
    /\ dirty' = dirty \cup {<<name, task>> : name \in w.wr}

\* cycle_picks, cycle_incs: pickups and increments of nr_boxes since the current
\* box_stacking_cycle began;  window_picks: pickups since Inlet last published
\* BoxReady;  since_take: steps of Arm since it published TakeBox, while that
\* pickup is under way and in the step that ends it, else -1;  reload_run: the
\* steps of Magazine in a row, up to the last one, that left Reloading published;
\* move_run: the same of Inlet and MoveBox
TallyInit ==
    [cycle_picks |-> 0, cycle_incs |-> 0, window_picks |-> 0, since_take |-> -1,
     reload_run |-> 0, move_run |-> 0]

\* the tally after a step of Arm that did e, the step before having done before
TallyArm(t, e, before) ==
    [cycle_picks |-> IF "cycle" \in e THEN 0 ELSE t.cycle_picks + BoolToInt("pick" \in e),
     cycle_incs |-> IF "cycle" \in e THEN 0 ELSE t.cycle_incs + BoolToInt("inc" \in e),
     window_picks |-> t.window_picks + BoolToInt("pick" \in e),
     since_take |-> IF "take" \in e THEN 0
                    ELSE IF t.since_take < 0 \/ "pick" \in before \/ "stop" \in e THEN -1
                    ELSE t.since_take + 1,
     reload_run |-> t.reload_run,
     move_run |-> t.move_run]

\* the tally after a step of Magazine that left new published
TallyMag(t, new) ==
    [t EXCEPT !.reload_run = IF new = "Reloading" THEN @ + 1 ELSE 0]

\* the tally after a step of Inlet that took Inlet's state from old to new
TallyInlet(t, old, new) ==
    [t EXCEPT !.window_picks = IF new = "BoxReady" /\ old # "BoxReady" THEN 0 ELSE @,
              !.move_run = IF new = "MoveBox" THEN @ + 1 ELSE 0]

Call(op, k) == [op |-> op, k |-> k]
NoCall == Call("none", -1)

Init ==
    /\ settings = SettingsInit
    /\ nr_boxes = 0
    /\ inlet_state = "Undefined"
    /\ mag_state = "Undefined"
    /\ arm_state = "Undefined"
    /\ x_axis = MotorInit
    /\ y_axis = MotorInit
    /\ z_axis = MotorInit
    /\ gripper = PistonInit
    /\ arm_frames = << >>
    /\ inl_frame = [pc |-> "none", i |-> 0, addr |-> 0]
    /\ mag_frame = [pc |-> "none", i |-> 0, addr |-> 0]
    /\ main_pc = "main"
    /\ fault = "none"
    /\ ops = 0
    /\ last_op = NoCall
    /\ ev = {}
    /\ uncounted = 0
    /\ tally = TallyInit
    /\ timer = TickInit(tick_period)
    /\ start_unused = [o \in {"Arm", "Mag", "Inlet"} |-> 0]
    /\ resumed = << >>
    /\ reads = {}
    /\ dirty = {}
    /\ arena = [start_unused |-> 0, live |-> << >>, failed |-> "none", made |-> 0]

-----------------------------------------------------------------------------
(* main: the start, and the four steps of a tick *)

\* settings.set_active(); arm_update = Arm::run(); mag_update = ...; inl_update = ...
MainStart ==
    /\ main_pc = "main"
    /\ settings' = set_active(settings)
    /\ LET arm == allocate(start_unused["Arm"], frame_bytes("run"))
           mag == allocate(start_unused["Mag"], frame_bytes("run"))
           inl == allocate(start_unused["Inlet"], frame_bytes("run"))
       IN  /\ arm_frames' = << [Frame("run", << >>) EXCEPT !.addr = arm.address] >>
           /\ mag_frame' = [pc |-> "initial", i |-> 0, addr |-> mag.address]
           /\ inl_frame' = [pc |-> "initial", i |-> 0, addr |-> inl.address]
           /\ start_unused' = [o \in {"Arm", "Mag", "Inlet"} |->
                                  CASE o = "Arm" -> arm.start_unused
                                    [] o = "Mag" -> mag.start_unused
                                    [] o = "Inlet" -> inl.start_unused]
    /\ main_pc' = "sim"
    /\ UNCHANGED << nr_boxes, inlet_state, mag_state, arm_state, x_axis, y_axis,
                    z_axis, gripper, fault, ops, last_op, ev, uncounted, tally,
                    resumed, reads, dirty >>
    /\ UNCHANGED apart

Running(pc) == main_pc = pc /\ fault = "none"

\* the gripper finishes extending in this tick
ExtensionCompletes(p) == p.ticks_until_change = 1 /\ ~p.curr_extended

\* Arm::update_simulated_parts()
UpdateSimulatedParts ==
    /\ Running("sim")
    /\ x_axis' = motor_simulate_tick(x_axis)
    /\ y_axis' = motor_simulate_tick(y_axis)
    /\ z_axis' = motor_simulate_tick(z_axis)
    /\ gripper' = piston_simulate_tick(gripper)
    /\ uncounted' = uncounted + BoolToInt(ExtensionCompletes(gripper))
    /\ main_pc' = "arm"
    /\ last_op' = NoCall
    /\ reads' = {}
    /\ dirty' = {}
    /\ UNCHANGED << settings, nr_boxes, inlet_state, mag_state, arm_state,
                    arm_frames, inl_frame, mag_frame, fault, ops, ev, tally,
                    start_unused, resumed >>
    /\ UNCHANGED apart

\* arm_update()
ArmUpdate ==
    /\ Running("arm")
    /\ \E w \in {run(World)} :
           /\ Becomes(w)
           /\ Accesses(w, "Arm")
           /\ ev' = w.ev
           /\ resumed' = w.resumed
           /\ uncounted' = uncounted - BoolToInt("inc" \in w.ev)
           /\ tally' = TallyArm(tally, w.ev, ev)
    /\ main_pc' = "mag"
    /\ UNCHANGED << settings, ops, last_op >>
    /\ UNCHANGED apart

\* mag_update()
MagUpdate ==
    /\ Running("mag")
    /\ \E w \in {mag_run(World)} : Becomes(w) /\ Accesses(w, "Mag")
    /\ tally' = TallyMag(tally, mag_state')
    /\ main_pc' = "inl"
    /\ UNCHANGED << settings, ops, last_op, ev, uncounted, resumed >>
    /\ UNCHANGED apart

\* inl_update(), and the wait for the end of the tick
InlUpdate ==
    /\ Running("inl")
    /\ \E w \in {inlet_run(World)} : Becomes(w) /\ Accesses(w, "Inlet")
    /\ tally' = TallyInlet(tally, inlet_state, inlet_state')
    /\ main_pc' = "sim"
    /\ UNCHANGED << settings, ops, last_op, ev, uncounted, resumed >>
    /\ UNCHANGED apart

TickNext == UpdateSimulatedParts \/ ArmUpdate \/ MagUpdate \/ InlUpdate

-----------------------------------------------------------------------------
(* The operator, who calls the Settings between two ticks *)

SetActive ==
    settings' = set_active(settings) /\ last_op' = Call("set_active", -1)

ResetActive ==
    settings' = reset_active(settings) /\ last_op' = Call("reset_active", -1)

SetError(k) ==
    settings' = set_error(settings, k) /\ last_op' = Call("set_error", k)

ResetError(k) ==
    settings' = reset_error(settings, k) /\ last_op' = Call("reset_error", k)

OperatorActs ==
    \/ SetActive
    \/ ResetActive
    \/ \E k \in Errors : SetError(k)
    \/ \E k \in Errors : ResetError(k)

\* the Settings object alone, under any sequence of calls
SettingsNext == OperatorActs /\ UNCHANGED << plant, ops, apart >>

SettingsSpec == Init /\ [][SettingsNext]_vars

\* the control loop with no operator: the settings stay as main set them
LoopNext == MainStart \/ TickNext

LoopSpec == Init /\ [][LoopNext]_vars

FairLoopSpec == LoopSpec /\ WF_vars(LoopNext)

\* the control loop with an operator who makes up to MaxOps calls, each
\* between two ticks, while the first MaxBoxes boxes are stacked
Operator ==
    /\ Running("sim")
    /\ ops < MaxOps
    /\ ops' = ops + 1
    /\ OperatorActs
    /\ UNCHANGED << plant, apart >>

Next ==
    \/ MainStart
    \/ nr_boxes < MaxBoxes /\ TickNext
    \/ Operator

Spec == Init /\ [][Next]_vars

-----------------------------------------------------------------------------
(* The timer alone, under any durations of a tick's work *)

\* the work of a tick takes d milliseconds
TimerWorks(d) ==
    /\ timer.now + d <= MaxTime
    /\ timer' = [timer EXCEPT !.now = @ + d]

\* timer.wait_till_end_of_tick()
TimerWaits(oversleep) ==
    /\ timer.start + timer.period + oversleep <= MaxTime
    /\ timer' = wait_till_end_of_tick(timer, oversleep)

TimerNext ==
    /\ \/ \E d \in 1..MaxWork : TimerWorks(d)
       \/ \E oversleep \in 0..MaxOversleep : TimerWaits(oversleep)
    /\ UNCHANGED << settings, plant, ops, last_op, arena >>

TimerSpec == Init /\ [][TimerNext]_vars

-----------------------------------------------------------------------------
(* A CoroutineStack alone, its blocks allocated and freed in any order *)

\* the sizes asked for, in bytes
AllocBytes == {1, 20, 4080}

\* allocate(n)
ArenaAllocates(n) ==
    /\ arena.failed = "none"
    /\ arena.made < MaxAllocs
    /\ LET a == allocate(arena.start_unused, n)
       IN  arena' = IF a.ok
                    THEN [arena EXCEPT !.start_unused = a.start_unused,
                                       !.live = Append(@, a.address),
                                       !.made = @ + 1]
                    ELSE [arena EXCEPT !.failed = "allocate", !.made = @ + 1]

\* deallocate(address) of the i-th of the live blocks, oldest first
ArenaDeallocates(i) ==
    /\ arena.failed = "none"
    /\ i \in 1..Len(arena.live)
    /\ LET r == deallocate(arena.start_unused, arena.live[i])
       IN  arena' = IF r.ok
                    THEN [arena EXCEPT !.start_unused = r.start_unused,
                                       !.live = SubSeq(@, 1, i - 1) \o SubSeq(@, i + 1, Len(@))]
                    ELSE [arena EXCEPT !.failed = "deallocate"]

ArenaNext ==
    /\ \/ \E n \in AllocBytes : ArenaAllocates(n)
       \/ \E i \in 1..MaxAllocs : ArenaDeallocates(i)
    /\ UNCHANGED << settings, plant, ops, last_op, timer >>

ArenaSpec == Init /\ [][ArenaNext]_vars

-----------------------------------------------------------------------------
(* The Settings gate: C1 to C4, under SettingsSpec *)

\* C1: after any sequence of set_active, reset_active, set_error and
\* reset_error calls, is_active() implies curr_error_count() = 0.
C1_ActiveImpliesNoError ==
    is_active(settings) => curr_error_count(settings) = 0

\* C2: reset_error(k) takes exactly 1 off the count when k is set and nothing
\* otherwise, the count being a number that never goes below zero (so it never
\* wraps around to the top of the unsigned range).
C2_ClearDecrementsNeverBelowZero ==
    [][\A k \in Errors : ResetError(k) =>
          curr_error_count(settings') =
              curr_error_count(settings) - BoolToInt(error_is_set(settings, k))]_vars

\* C3: set_error(k) adds exactly 1 to the count when k is not set, adds 0 when
\* k is set already, and leaves the flags of the other kinds alone.
C3_RaiseCountsOnce ==
    [][\A k \in Errors : SetError(k) =>
          /\ curr_error_count(settings') =
                 curr_error_count(settings) + BoolToInt(~error_is_set(settings, k))
          /\ \A j \in Errors \ {k} :
                 error_is_set(settings', j) = error_is_set(settings, j)]_vars

\* C4: set_active changes nothing while the error count is above 0 and sets
\* active when the count is 0; every set_error leaves is_active() false.
C4_ActivateGatedRaiseDeactivates ==
    [][/\ SetActive =>
            IF curr_error_count(settings) > 0
            THEN settings' = settings
            ELSE settings' = [settings EXCEPT !.active = TRUE]
       /\ \A k \in Errors : SetError(k) => ~is_active(settings')]_vars

\* set_active was called with an error counted, and the settings are inactive
C4_Witness ==
    /\ last_op = Call("set_active", -1)
    /\ curr_error_count(settings) > 0
    /\ ~is_active(settings)

-----------------------------------------------------------------------------
(* Arm under errors and deactivation: C5 to C7, under Spec *)

\* a step of Arm
ArmSteps == main_pc = "arm" /\ main_pc' = "mag"

Stopped(m) == m.target_pos = m.curr_pos

\* C5: whenever an error is outstanding when Arm is stepped, whatever Arm was
\* doing, by the end of the step the three axes are commanded to stop where they
\* are and Arm's state is Undefined; and Arm leaves Undefined only by starting
\* the homing sequence, so it homes again before any further cycle.
C5_ErrorStopsArm ==
    /\ [][(ArmSteps /\ has_error(settings)) =>
            /\ arm_state' = "Undefined"
            /\ Stopped(x_axis') /\ Stopped(y_axis') /\ Stopped(z_axis')]_vars
    /\ [][(arm_state = "Undefined" /\ arm_state' # "Undefined") =>
            arm_state' = "Homeing"]_vars

\* Arm is parked at the YIELD of the do-while of box_stacking_cycle
ArmWaitsForBox ==
    /\ Len(arm_frames) = 2
    /\ arm_frames[2].fn = "box_stacking_cycle"
    /\ arm_frames[2].pc = "waiting"

\* C6: Arm goes from Waiting to TakeBox only in a step in which the settings
\* are active, Inlet's state is BoxReady and Magazine's state is Ready; a step
\* of the waiting Arm with the settings inactive ends the cycle and writes
\* neither Arm's state, an axis, the gripper, Inlet's state nor nr_boxes.
C6_TakeBoxOnlyWhenActive ==
    /\ [][(arm_state = "Waiting" /\ arm_state' = "TakeBox") =>
            /\ is_active(settings)
            /\ inlet_state = "BoxReady"
            /\ mag_state = "Ready"]_vars
    /\ [][(ArmSteps /\ ArmWaitsForBox /\ ~is_active(settings) /\ ~has_error(settings)) =>
            /\ arm_state' = "Waiting"
            /\ arm_frames'[2].pc = "final"
            /\ UNCHANGED << x_axis, y_axis, z_axis, gripper, inlet_state, nr_boxes >>]_vars

\* C7: nr_boxes is incremented exactly once for every box the arm releases and
\* never otherwise: a gripper extension completed by the simulation is counted
\* by the step of Arm of the same tick, and nothing else is counted.
C7_EveryReleaseCounted ==
    /\ uncounted \in {0, 1}
    /\ main_pc # "arm" => uncounted = 0

-----------------------------------------------------------------------------
(* The choreography with the settings active and no error: C8 to C10, *)
(* under LoopSpec and FairLoopSpec                                    *)

\* the box_stacking_cycle Arm::run is executing has run to its end
CycleComplete ==
    /\ Len(arm_frames) = 2
    /\ arm_frames[2].fn = "box_stacking_cycle"
    /\ arm_frames[2].pc = "final"

\* C8: each BoxReady window leads to exactly one pickup and one completed
\* cycle: Arm picks up only while Inlet's state is BoxReady, never twice in one
\* window, the window ends only by Arm's write of NoBox, and a cycle that has
\* run to its end has made one pickup and incremented nr_boxes once.
C8_OnePickupPerWindow ==
    /\ [](/\ tally.window_picks <= 1
          /\ tally.cycle_picks <= 1
          /\ tally.cycle_incs <= 1
          /\ CycleComplete => (tally.cycle_picks = 1 /\ tally.cycle_incs = 1))
    /\ [][(ArmSteps /\ "pick" \in ev') => inlet_state = "BoxReady"]_vars
    /\ [][(inlet_state = "BoxReady" /\ inlet_state' # "BoxReady") =>
            (ArmSteps /\ "pick" \in ev' /\ inlet_state' = "NoBox")]_vars
    /\ [][nr_boxes' > nr_boxes => (ArmSteps /\ nr_boxes' = nr_boxes + 1)]_vars

\* a cycle has run to its end with its one pickup and one increment
C8_Witness ==
    /\ CycleComplete
    /\ tally.cycle_picks = 1
    /\ tally.cycle_incs = 1
    /\ nr_boxes = 2

\* C9 as claimed: Inlet's state becomes NoBox no later than one tick after the
\* tick in which Arm publishes TakeBox.
C9_NoBoxOneTickAfterTakeBox ==
    tally.since_take >= 1 => (tally.since_take = 1 /\ "pick" \in ev)

CeilDiv(a, b) == (a + b - 1) \div b

\* ticks from the step that publishes TakeBox to the step that clears Inlet's
\* state: the descent to the pickup height, one step for EXEC to see go_to end,
\* and the gripper's travel
PickupTicks == CeilDiv(box_pickup_pos.z - travel_z, motor_speed) + 1 + piston_ticks

\* C9 as amended: Arm writes NoBox in the step in which it sees the gripper
\* retracted, PickupTicks (10) ticks after the tick in which it publishes
\* TakeBox; until then Inlet's state stays BoxReady.
C9_NoBoxWhenGripperRetracted ==
    /\ "pick" \in ev => (tally.since_take = PickupTicks /\ is_retracted(gripper))
    /\ ("pick" \in ev /\ main_pc = "mag") => inlet_state = "NoBox"
    /\ (tally.since_take >= 0 /\ "pick" \notin ev) =>
            (tally.since_take < PickupTicks /\ inlet_state = "BoxReady")

\* Arm has just cleared Inlet's state, ten ticks after publishing TakeBox
C9_Witness ==
    /\ main_pc = "mag"
    /\ "pick" \in ev
    /\ inlet_state = "NoBox"
    /\ tally.since_take = 10

\* C10: with the settings active and no error raised, nr_boxes is incremented
\* again and again, for ever.
C10_BoxesKeepComing ==
    []<><<nr_boxes' = nr_boxes + 1>>_vars

\* Arm counts the box that fills the pallet and sets off Magazine's reload
C10_Witness ==
    /\ "inc" \in ev
    /\ main_pc = "mag"
    /\ nr_boxes = boxes_per_palette

-----------------------------------------------------------------------------
(* Magazine and Inlet on their own: C11 under LoopSpec, C12 under Spec *)

MagSteps == main_pc = "mag" /\ main_pc' = "inl"

\* C11: when nr_boxes has reached the capacity, Magazine's step takes it from
\* Ready to Reloading and resets nr_boxes to 0 in that same step; Reloading is
\* then published for 5 ticks in a row and Ready on the tick after, and from
\* Magazine's first step on nothing but Ready and Reloading is ever published.
C11_ReloadTakesFiveTicks ==
    [][MagSteps =>
          /\ mag_state' \in {"Ready", "Reloading"}
          /\ (mag_state = "Ready" /\ nr_boxes >= 48) =>
                 (mag_state' = "Reloading" /\ nr_boxes' = 0)
          /\ (mag_state = "Ready" /\ nr_boxes < 48) =>
                 (mag_state' = "Ready" /\ nr_boxes' = nr_boxes)
          /\ (mag_state = "Reloading" /\ tally.reload_run < 5) =>
                 (mag_state' = "Reloading" /\ nr_boxes' = nr_boxes)
          /\ (mag_state = "Reloading" /\ tally.reload_run >= 5) =>
                 (mag_state' = "Ready" /\ tally.reload_run = 5)]_vars

\* Magazine has just stepped back to Ready, its reload loop having run out
C11_Witness ==
    /\ main_pc = "inl"
    /\ mag_state = "Ready"
    /\ mag_frame.i = mag_reload_ticks
    /\ tally.reload_run = 0
    /\ nr_boxes = 0

InlSteps == main_pc = "inl" /\ main_pc' = "sim"

\* C12: a step of Inlet that finds Undefined or NoBox published leaves it alone
\* while the settings are inactive and publishes MoveBox once they are active;
\* MoveBox is then published for 10 ticks in a row, whatever the settings do in
\* between, and BoxReady on the tick after; a step that finds BoxReady leaves
\* BoxReady; and no step of Inlet writes NoBox.
C12_InletMovesTenTicks ==
    [][InlSteps =>
          /\ (inlet_state \in {"Undefined", "NoBox"} /\ ~is_active(settings)) =>
                 inlet_state' = inlet_state
          /\ (inlet_state \in {"Undefined", "NoBox"} /\ is_active(settings)) =>
                 inlet_state' = "MoveBox"
          /\ (inlet_state = "MoveBox" /\ tally.move_run < 10) =>
                 inlet_state' = "MoveBox"
          /\ (inlet_state = "MoveBox" /\ tally.move_run >= 10) =>
                 (inlet_state' = "BoxReady" /\ tally.move_run = 10)
          /\ inlet_state = "BoxReady" => inlet_state' = "BoxReady"
          /\ inlet_state' = "NoBox" => inlet_state = "NoBox"]_vars

\* Inlet is in the middle of a move that went on through a tick with the
\* settings inactive
C12_Witness ==
    /\ main_pc = "sim"
    /\ inlet_state = "MoveBox"
    /\ tally.move_run \in 2..9
    /\ ~is_active(settings)
    /\ last_op = NoCall

-----------------------------------------------------------------------------
(* The stack position: C13 under LoopSpec *)

\* slot i mod 4 of the default pallet, floor 300 and box height 30
StackTarget(i) ==
    [x |-> IF i % 2 = 0 THEN 250 ELSE 150,
     y |-> IF i % 4 < 2 THEN 300 ELSE 200,
     z |-> 300 + (i \div 4) * 30]

\* C13: the stack target computed for box index i = nr_boxes is slot i mod 4
\* in x and y and floor + (i div 4) * box height in z, for every i below the
\* capacity; it is the position go_to is given in TransportBox, and the
\* position the axes stand at when the box is released.
C13_StackTarget ==
    /\ \A i \in 0..47 : next_stack_box_pos(i) = StackTarget(i)
    /\ (arm_state = "TransportBox" /\ Len(arm_frames) = 3) =>
           (arm_frames[3].fn = "go_to" /\ arm_frames[3].args[2] = StackTarget(nr_boxes))
    /\ (arm_state = "ReleaseBox" /\ piston_is_moving(gripper)) =>
           /\ x_axis.curr_pos = StackTarget(nr_boxes).x
           /\ y_axis.curr_pos = StackTarget(nr_boxes).y
           /\ z_axis.curr_pos = StackTarget(nr_boxes).z

\* the twelfth box, the last of the third layer, is being released
C13_Witness ==
    /\ arm_state = "ReleaseBox"
    /\ piston_is_moving(gripper)
    /\ nr_boxes = 11
    /\ x_axis.curr_pos = 150 /\ y_axis.curr_pos = 200 /\ z_axis.curr_pos = 360

-----------------------------------------------------------------------------
(* The entry assertion of box_stacking_cycle: C19 under Spec *)

\* C19: the entry assertion of box_stacking_cycle never fails: whenever
\* Arm::run starts a cycle, after any ticks and operator calls, Arm's state is
\* neither Undefined nor Homeing and the gripper is extended and at rest.
C19_CycleEntryAssertionHolds ==
    fault # "cycle_entry"

-----------------------------------------------------------------------------
(* The error count against the error flags: C20 under SettingsSpec *)

\* C20: after any sequence of set_error and reset_error calls the count equals
\* the number of kinds whose flag is set; reset_error(k) leaves the flag of k
\* clear, and set_error(k) after it adds 1 to the count, so that has_error()
\* is true again.
C20_CountIsNumberOfFlags ==
    /\ curr_error_count(settings) =
           Cardinality({k \in Errors : error_is_set(settings, k)})
    /\ \A k \in Errors :
           last_op = Call("reset_error", k) => ~error_is_set(settings, k)
    /\ \A k \in Errors :
           last_op = Call("set_error", k) => has_error(settings)

-----------------------------------------------------------------------------
(* The tick timer: C16 under TimerSpec *)

\* C16: when the time elapsed since the baseline is at least the period,
\* wait_till_end_of_tick returns period - elapsed, which is not positive, and
\* sets the baseline to the current time, so that no overrun is carried into
\* the next tick; when it is less than the period, the result is positive and
\* the baseline moves on by exactly one period.
C16_OverrunIsNotCarriedOver ==
    [][\A oversleep \in 0..MaxOversleep : TimerWaits(oversleep) =>
          LET elapsed == timer.now - timer.start
          IN  /\ timer'.sleep_time = 10 - elapsed
              /\ elapsed >= 10 =>
                     (timer'.sleep_time <= 0 /\ timer'.start = timer.now)
              /\ elapsed < 10 =>
                     (timer'.sleep_time > 0 /\ timer'.start = timer.start + 10)]_vars

\* a tick has overrun by 3 ms, and not by a whole number of periods
C16_Witness ==
    /\ timer.sleep_time = -3
    /\ timer.start = timer.now
    /\ timer.start % tick_period # 0

-----------------------------------------------------------------------------
(* The arena's contract: C14 under ArenaSpec *)

\* C14: deallocate(address) fails an assert whenever address is not the most
\* recently allocated of the blocks still live; with two nested frames, freeing
\* the outer one first is rejected at that call and the cursor is not set back
\* below the live inner frame.
C14_OutOfOrderFreeRejected ==
    [][\A i \in 1..MaxAllocs :
          (ArenaDeallocates(i) /\ i < Len(arena.live)) =>
              (arena'.failed = "deallocate" /\ arena'.start_unused = arena.start_unused)]_vars

-----------------------------------------------------------------------------
(* The arenas of the three families: C17 under Spec *)

\* elements of the arena a frame of fn takes
FrameWords(fn) == allocate(0, frame_bytes(fn)).start_unused

RECURSIVE WordsBelow(_, _)
\* elements taken by the first n of the frames
WordsBelow(frames, n) ==
    IF n = 0 THEN 0 ELSE WordsBelow(frames, n - 1) + FrameWords(frames[n].fn)

\* run alone, or run with homeing or box_stacking_cycle and at most one go_to
IsCallChain(frames) ==
    /\ Len(frames) \in 1..3
    /\ frames[1].fn = "run"
    /\ Len(frames) >= 2 => frames[2].fn \in {"homeing", "box_stacking_cycle"}
    /\ Len(frames) = 3 => frames[3].fn = "go_to"

\* C17: the arena of each family holds exactly the frames of its call chain,
\* one after the other from the start of the arena up to the cursor (Arm: run
\* alone, or run with homeing or box_stacking_cycle and at most one go_to;
\* Inlet and Magazine: run alone); no assert of allocate or deallocate fails;
\* and after a step in which an error made EXEC_WHILE give up a homeing or a
\* cycle, the cursor of Arm's arena is back at the end of run's frame.
C17_ArenaHoldsTheCallChain ==
    main_pc # "main" =>
        /\ fault \notin {"allocate", "deallocate"}
        /\ IsCallChain(arm_frames)
        /\ \A d \in 1..Len(arm_frames) :
               arm_frames[d].addr = WordsBelow(arm_frames, d - 1)
        /\ start_unused["Arm"] = WordsBelow(arm_frames, Len(arm_frames))
        /\ mag_frame.addr = 0 /\ start_unused["Mag"] = FrameWords("run")
        /\ inl_frame.addr = 0 /\ start_unused["Inlet"] = FrameWords("run")
        /\ "stop" \in ev =>
               (Len(arm_frames) = 1 /\ start_unused["Arm"] = FrameWords("run"))

\* an error has just stopped Arm half way between two positions with a box in
\* the gripper: a cycle and the go_to parked in it were given up
C17_Witness ==
    /\ "stop" \in ev
    /\ main_pc = "mag"
    /\ x_axis.curr_pos \notin {0, 100, 150, 250}
    /\ ~gripper.curr_extended
    /\ Len(arm_frames) = 1
    /\ start_unused["Arm"] = FrameWords("run")

-----------------------------------------------------------------------------
(* What a step reads of what was written in its own tick: C15 under LoopSpec *)

\* the task that made the last step, if any was made in this tick
Stepper ==
    CASE main_pc = "mag" -> "Arm"
      [] main_pc = "inl" -> "Mag"
      [] main_pc = "sim" -> "Inlet"
      [] OTHER -> "none"

\* <<reader, name, writer>>: the last step read the shared variable name,
\* which another task, writer, had written earlier in the same tick
SameTickReads ==
    {<<Stepper, e[1], e[2]>> : e \in {a \in dirty : a[1] \in reads /\ a[2] # Stepper}}

\* C15: in every tick no step of a task reads a shared variable (Inlet's
\* state, Magazine's state, nr_boxes) that another task wrote earlier in the
\* same tick.
C15_NoSameTickRead ==
    SameTickReads = {}

\* C15 as amended: Arm, stepped first, reads only what was published by the end
\* of the tick before; Magazine reads nr_boxes in the tick in which Arm has
\* incremented it, and Inlet reads its own state in the tick in which Arm has
\* set it to NoBox; no step reads anything else written in its own tick.
C15_SameTickReadsAreOfArm ==
    /\ SameTickReads \subseteq
           {<<"Mag", "nr_boxes", "Arm">>, <<"Inlet", "inlet_state", "Arm">>}
    /\ <<"Mag", "nr_boxes", "Arm">> \in SameTickReads <=>
           (main_pc = "inl" /\ "inc" \in ev)
    /\ <<"Inlet", "inlet_state", "Arm">> \in SameTickReads <=>
           (main_pc = "sim" /\ "pick" \in ev)

\* Magazine has just read the count of 48 that Arm wrote in this tick, and
\* has reset it
C15_Witness ==
    /\ <<"Mag", "nr_boxes", "Arm">> \in SameTickReads
    /\ mag_state = "Reloading"
    /\ nr_boxes = 0

-----------------------------------------------------------------------------
(* EXEC and EXEC_WHILE: C18 under Spec *)

\* the suspension points inside an EXEC or EXEC_WHILE
ExecLabels ==
    {"exec_homeing", "exec_cycle", "exec_go_to", "exec_wait1", "exec_pick",
     "exec_stack", "exec_wait2"}

\* the condition of the EXEC_WHILE, or EXEC, the frame at depth d is parked in
ExecCond(d) == IF d = 1 THEN ~has_error(settings) ELSE TRUE

\* the step of Arm resumes the frame that is parked at depth d
StepsFrame(d) ==
    IF d = 1 THEN TRUE
    ELSE \E k \in 1..Len(resumed') :
            resumed'[k].d = d /\ resumed'[k].pc = arm_frames[d].pc

\* the resumptions of depth d in the step
ResumedAt(d) == SelectSeq(resumed', LAMBDA r : r.d = d)

\* C18: while a parent is parked in EXEC(subtask), each step of the parent
\* resumes the subtask exactly once and yields at the same place; a subtask
\* that has completed is never resumed; the parent goes on with its own code
\* only in a step that finds the subtask complete.  For EXEC_WHILE(cond,
\* subtask) the same holds, with cond evaluated before each resumption: once
\* cond is false the subtask is not resumed again.
C18_ExecStepsChildOnce ==
    [][ArmSteps =>
          /\ \A k \in 1..Len(resumed') : resumed'[k].pc # "final"
          /\ \A d \in 1..2 :
                 (Len(arm_frames) > d /\ arm_frames[d].pc \in ExecLabels /\ StepsFrame(d)) =>
                    IF ExecCond(d) /\ arm_frames[d + 1].pc # "final"
                    THEN /\ Len(ResumedAt(d + 1)) = 1
                         /\ ResumedAt(d + 1)[1].pc = arm_frames[d + 1].pc
                         /\ Len(arm_frames') > d
                         /\ arm_frames'[d].pc = arm_frames[d].pc
                         /\ arm_frames'[d + 1].fn = arm_frames[d + 1].fn
                    ELSE /\ Len(ResumedAt(d + 1)) <= 1
                         /\ \A k \in 1..Len(ResumedAt(d + 1)) :
                                ResumedAt(d + 1)[k].pc = "initial"]_vars

\* an error has just stopped Arm in the middle of a vertical move: the
\* EXEC_WHILE found its condition false and resumed nothing
C18_Witness ==
    /\ main_pc = "mag"
    /\ "stop" \in ev
    /\ resumed = << >>
    /\ z_axis.curr_pos \notin {0, 100, 200, 300}
    /\ arm_frames[1].pc = "wait_error"

-----------------------------------------------------------------------------
(* The count of boxes against the capacity: C21 under LoopSpec *)

\* C21: at every tick boundary 0 <= nr_boxes < 48; the count is at the
\* capacity only between the step of Arm whose increment took it there and
\* the step of Magazine in the same tick, which resets it; so Arm neither
\* enters TakeBox nor computes a stack position with the count at or above
\* the capacity, and never carries a box to a layer above the twelfth.
C21_CountBelowCapacity ==
    /\ nr_boxes \in 0..48
    /\ main_pc = "sim" => nr_boxes < 48
    /\ nr_boxes = 48 => (main_pc = "mag" /\ "inc" \in ev)
    /\ arm_state \in {"TakeBox", "TransportBox", "ReleaseBox"} => nr_boxes < 48
    /\ (main_pc = "mag" /\ ({"take", "pick"} \cap ev) # {}) => nr_boxes < 48
    /\ \A d \in 1..Len(arm_frames) :
           (arm_frames[d].fn = "go_to" /\ arm_state = "TransportBox") =>
               arm_frames[d].args[2].z <= 300 + 11 * 30

\* the tick in which Arm counted the 48th box has ended with the count reset
C21_Witness ==
    /\ main_pc = "sim"
    /\ "inc" \in ev
    /\ nr_boxes = 0
    /\ mag_state = "Reloading"
    /\ arm_state = "ToWaitPos"
====
